---- MODULE Spec2Model ----
(***************************************************************************)
(* My_Alarm.c: a main thread (the Ingestion Loop) reads alarm requests and *)
(* links them into a time-sorted list guarded by alarm_mutex; alarm_thread *)
(* (the Dispatcher) unlinks the head and starts one individual_alarm_thread*)
(* (a Worker) per record; each Worker ticks once a second until the        *)
(* record's time has come, then reports, frees the record and exits.       *)
(*                                                                         *)
(* Records are heap cells: mem[p] is the alarm_t that the p-th malloc      *)
(* returned, p >= 1, and NULL is 0.  The pthread and malloc calls are      *)
(* taken to succeed (status = 0), so the err_abort branches are not taken. *)
(***************************************************************************)
EXTENDS Integers, Sequences, FiniteSets

VARIABLES
    now,          \* the value time(NULL) returns
    alarm_mutex,  \* owner of alarm_mutex: "free", "main" or "alarm_thread"
    alarm_list,   \* head pointer of the list
    alarm_done,   \* the no-more-input flag
    mem,          \* the heap: sequence of alarm_t records, one per malloc
    mpc,          \* main: program position
    m_alarm,      \* main: local `alarm`
    nlines,       \* lines fgets has returned so far
    dpc,          \* alarm_thread: program position
    d_alarm,      \* alarm_thread: local `alarm`
    sleep_time,   \* alarm_thread: local `sleep_time`
    threads,      \* the individual_alarm_thread instances, in creation order
    out,          \* stdout, per record: the reports that name it
    err,          \* stderr: number of "Bad command" lines
    insertedSeq,  \* history: records in the order they were linked in
    poppedSeq,    \* history: records in the order alarm_thread unlinked them
    together      \* history: pairs <<a, b>>, b linked in while a was listed

vars == <<now, alarm_mutex, alarm_list, alarm_done, mem, mpc, m_alarm, nlines,
          dpc, d_alarm, sleep_time, threads, out, err, insertedSeq, poppedSeq,
          together>>

\* ---------------------------------------------------------------- bounds
MaxLines == 3     \* non-EOF lines the input source delivers
MaxDelay == 1     \* largest delay, either way, a request asks for
MaxTime  == 1     \* the clock runs freely up to here, then only while an
                  \* alarm is still counting down

Delays == (0 - MaxDelay) .. MaxDelay
Msgs   == {"m"}

NULL == 0

\* ---------------------------------------------------------------- helpers
\* The list as the sequence of record pointers from p on (n bounds the walk).
RECURSIVE ListFrom(_, _, _)
ListFrom(m, p, n) ==
    IF p = NULL \/ n = 0 THEN <<>>
    ELSE <<p>> \o ListFrom(m, m[p].link, n - 1)

Registry == ListFrom(mem, alarm_list, Len(mem))

Range(s) == { s[i] : i \in 1..Len(s) }

\* line 189: the test that stops the walk in front of `next`.
InsertBefore_strict(nextTime, alarmTime) == nextTime > alarmTime
InsertBefore_flipped(nextTime, alarmTime) == nextTime <= alarmTime
InsertBefore(nextTime, alarmTime) == nextTime >= alarmTime

\* `*last = alarm`, where last is 0 for &alarm_list and p for &mem[p].link.
Store(st, last, alarm) ==
    IF last = 0
    THEN [st EXCEPT !.head = alarm]
    ELSE [st EXCEPT !.mem[last].link = alarm]

\* lines 188-206: the walk from (last, next) and the link-in of `alarm`.
RECURSIVE Walk(_, _, _, _)
Walk(st, last, next, alarm) ==
    IF next = NULL
    THEN Store([st EXCEPT !.mem[alarm].link = NULL], last, alarm)
    ELSE IF InsertBefore(st.mem[next].time, st.mem[alarm].time)
         THEN Store([st EXCEPT !.mem[alarm].link = next], last, alarm)
         ELSE Walk(st, next, st.mem[next].link, alarm)

\* line 112: the new head after unlinking `alarm`.
PopLink_same(alarm) == alarm
PopLink_drop(alarm) == NULL
PopLink(alarm) == mem[alarm].link

\* ---------------------------------------------------------------- Init
Init ==
    /\ now = 0
    /\ alarm_mutex = "free"
    /\ alarm_list = NULL
    /\ alarm_done = 0
    /\ mem = <<>>
    /\ mpc = "read"
    /\ m_alarm = NULL
    /\ nlines = 0
    /\ dpc = "lock"
    /\ d_alarm = NULL
    /\ sleep_time = 0
    /\ threads = <<>>
    /\ out = <<>>
    /\ err = 0
    /\ insertedSeq = <<>>
    /\ poppedSeq = <<>>
    /\ together = {}

\* ---------------------------------------------------------------- main
\* MEof without the pthread_exit of line 152: main goes back to the prompt.
MEof_continue ==
    /\ mpc = "read"
    /\ alarm_done' = 1
    /\ UNCHANGED <<d_alarm, now, alarm_mutex, alarm_list, mem, mpc, m_alarm, nlines,
                   dpc, sleep_time, threads, out, err, insertedSeq, poppedSeq,
                   together>>

\* lines 149-153: fgets returns NULL; set the flag and end the thread.
MEof ==
    /\ mpc = "read"
    /\ alarm_done' = 1
    /\ mpc' = "exited"
    /\ UNCHANGED <<d_alarm, now, alarm_mutex, alarm_list, mem, m_alarm, nlines, dpc,
                   sleep_time, threads, out, err, insertedSeq, poppedSeq, together>>

\* lines 149, 155: a line of at most the newline; next iteration.
MBlank ==
    /\ mpc = "read"
    /\ nlines < MaxLines
    /\ nlines' = nlines + 1
    /\ UNCHANGED <<d_alarm, now, alarm_mutex, alarm_list, alarm_done, mem, mpc, m_alarm,
                   dpc, sleep_time, threads, out, err, insertedSeq, poppedSeq,
                   together>>

\* MBad with the else of line 170 lost: the record goes on to be inserted.
MBad_admit ==
    /\ mpc = "read"
    /\ nlines < MaxLines
    /\ nlines' = nlines + 1
    /\ mem' = Append(mem, [link |-> NULL, seconds |-> 0, time |-> 0,
                            message |-> "", stamped |-> FALSE, frees |-> 1])
    /\ out' = Append(out, <<>>)
    /\ err' = err + 1
    /\ m_alarm' = Len(mem) + 1
    /\ mpc' = "lock"
    /\ UNCHANGED <<d_alarm, now, alarm_mutex, alarm_list, alarm_done, dpc,
                   sleep_time, threads, insertedSeq, poppedSeq, together>>

\* lines 157-169: malloc, sscanf converts fewer than 2 fields, free.
MBad ==
    /\ mpc = "read"
    /\ nlines < MaxLines
    /\ nlines' = nlines + 1
    /\ mem' = Append(mem, [link |-> NULL, seconds |-> 0, time |-> 0,
                            message |-> "", stamped |-> FALSE, frees |-> 1])
    /\ out' = Append(out, <<>>)
    /\ err' = err + 1
    /\ UNCHANGED <<d_alarm, now, alarm_mutex, alarm_list, alarm_done, mpc, m_alarm, dpc,
                   sleep_time, threads, insertedSeq, poppedSeq, together>>

\* lines 157-167: malloc, sscanf fills seconds and message.
MGood ==
    /\ mpc = "read"
    /\ nlines < MaxLines
    /\ nlines' = nlines + 1
    /\ \E d \in Delays, msg \in Msgs :
          mem' = Append(mem, [link |-> NULL, seconds |-> d, time |-> 0,
                              message |-> msg, stamped |-> FALSE, frees |-> 0])
    /\ out' = Append(out, <<>>)
    /\ m_alarm' = Len(mem) + 1
    /\ mpc' = "lock"
    /\ UNCHANGED <<d_alarm, now, alarm_mutex, alarm_list, alarm_done, dpc, sleep_time,
                   threads, err, insertedSeq, poppedSeq, together>>

\* line 174: pthread_mutex_lock.
MLock ==
    /\ mpc = "lock"
    /\ alarm_mutex = "free"
    /\ alarm_mutex' = "main"
    /\ mpc' = "stamp"
    /\ UNCHANGED <<d_alarm, now, alarm_list, alarm_done, mem, m_alarm, nlines, dpc,
                   sleep_time, threads, out, err, insertedSeq, poppedSeq, together>>

\* MStamp without the printf of line 180.
MStamp_silent ==
    /\ mpc = "stamp"
    /\ mem' = [mem EXCEPT ![m_alarm].time = now + mem[m_alarm].seconds,
                          ![m_alarm].stamped = TRUE]
    /\ mpc' = "insert"
    /\ UNCHANGED <<d_alarm, now, alarm_mutex, alarm_list, alarm_done, m_alarm,
                   nlines, dpc, sleep_time, threads, out, err, insertedSeq,
                   poppedSeq, together>>

\* lines 177-180: alarm->time = time(NULL) + seconds; "Alarm Recieved".
MStamp ==
    /\ mpc = "stamp"
    /\ mem' = [mem EXCEPT ![m_alarm].time = now + mem[m_alarm].seconds,
                          ![m_alarm].stamped = TRUE]
    /\ out' = [out EXCEPT ![m_alarm] = Append(@, "received")]
    /\ mpc' = "insert"
    /\ UNCHANGED <<d_alarm, now, alarm_mutex, alarm_list, alarm_done, m_alarm, nlines, dpc,
                   sleep_time, threads, err, insertedSeq, poppedSeq, together>>

\* lines 186-206: last = &alarm_list; next = *last; walk; link in.
MInsert ==
    /\ mpc = "insert"
    /\ LET st == Walk([mem |-> mem, head |-> alarm_list], 0, alarm_list, m_alarm)
       IN /\ mem' = st.mem
          /\ alarm_list' = st.head
    /\ insertedSeq' = Append(insertedSeq, m_alarm)
    /\ together' = together \cup { <<a, m_alarm>> : a \in Range(Registry) }
    /\ mpc' = "unlock"
    /\ UNCHANGED <<d_alarm, now, alarm_mutex, alarm_done, m_alarm, nlines, dpc, sleep_time,
                   threads, out, err, poppedSeq>>

\* MUnlock without the pthread_mutex_unlock of line 211.
MUnlock_keep ==
    /\ mpc = "unlock"
    /\ mpc' = "read"
    /\ UNCHANGED <<d_alarm, now, alarm_mutex, alarm_list, alarm_done, mem, m_alarm,
                   nlines, dpc, sleep_time, threads, out, err, insertedSeq,
                   poppedSeq, together>>

\* line 211: pthread_mutex_unlock; back to the prompt.
MUnlock ==
    /\ mpc = "unlock"
    /\ alarm_mutex' = "free"
    /\ mpc' = "read"
    /\ UNCHANGED <<d_alarm, now, alarm_list, alarm_done, mem, m_alarm, nlines, dpc,
                   sleep_time, threads, out, err, insertedSeq, poppedSeq, together>>

\* ---------------------------------------------------------------- alarm_thread
\* line 83: pthread_mutex_lock.
DLock ==
    /\ dpc = "lock"
    /\ alarm_mutex = "free"
    /\ alarm_mutex' = "alarm_thread"
    /\ dpc' = "locked"
    /\ UNCHANGED <<d_alarm, now, alarm_list, alarm_done, mem, mpc, m_alarm, nlines,
                   sleep_time, threads, out, err, insertedSeq, poppedSeq, together>>

\* lines 91-97: list empty, flag clear: sleep_time = 1 (no sleep is called).
DIdle ==
    /\ dpc = "locked"
    /\ alarm_list = NULL /\ alarm_done = 0
    /\ sleep_time' = 1
    /\ dpc' = "unlock"
    /\ d_alarm' = alarm_list
    /\ UNCHANGED <<now, alarm_mutex, alarm_list, alarm_done, mem, mpc, m_alarm,
                   nlines, threads, out, err, insertedSeq, poppedSeq, together>>

\* DExit with the test of alarm_done (line 102) lost.
DExit_early ==
    /\ dpc = "locked"
    /\ alarm_list = NULL
    /\ d_alarm' = alarm_list
    /\ dpc' = "exited"
    /\ UNCHANGED <<now, alarm_mutex, alarm_list, alarm_done, mem, mpc, m_alarm,
                   nlines, sleep_time, threads, out, err, insertedSeq, poppedSeq,
                   together>>

\* DExit without the pthread_exit of line 103: the thread goes round again.
DExit_spin ==
    /\ dpc = "locked"
    /\ alarm_list = NULL /\ alarm_done = 1
    /\ dpc' = "unlock"
    /\ d_alarm' = alarm_list
    /\ UNCHANGED <<now, alarm_mutex, alarm_list, alarm_done, mem, mpc, m_alarm,
                   nlines, sleep_time, threads, out, err, insertedSeq, poppedSeq,
                   together>>

\* lines 91-103: list empty, flag set: pthread_exit, the mutex still locked.
DExit ==
    /\ dpc = "locked"
    /\ alarm_list = NULL /\ alarm_done = 1
    /\ dpc' = "exited"
    /\ d_alarm' = alarm_list
    /\ UNCHANGED <<now, alarm_mutex, alarm_list, alarm_done, mem, mpc, m_alarm,
                   nlines, sleep_time, threads, out, err, insertedSeq, poppedSeq,
                   together>>

\* DDispatch with the unlock of line 121 moved up in front of line 111: the
\* report and the pthread_create happen with the mutex already released.
DDispatch_release ==
    /\ dpc = "locked"
    /\ alarm_list # NULL
    /\ d_alarm' = alarm_list
    /\ out' = [out EXCEPT ![alarm_list] = Append(@, "retrieved")]
    /\ alarm_list' = mem[alarm_list].link
    /\ poppedSeq' = Append(poppedSeq, alarm_list)
    /\ threads' = Append(threads, [alarm |-> alarm_list, pc |-> "run", wake |-> 0])
    /\ alarm_mutex' = "free"
    /\ dpc' = "lock"
    /\ UNCHANGED <<now, alarm_done, mem, mpc, m_alarm, nlines, sleep_time, err,
                   insertedSeq, together>>

\* lines 91-116: "Alarm Retrieved", unlink the head, pthread_create.
DDispatch ==
    /\ dpc = "locked"
    /\ alarm_list # NULL
    /\ out' = [out EXCEPT ![alarm_list] = Append(@, "retrieved")]
    /\ alarm_list' = PopLink(alarm_list)
    /\ poppedSeq' = Append(poppedSeq, alarm_list)
    /\ threads' = Append(threads, [alarm |-> alarm_list, pc |-> "run", wake |-> 0])
    /\ dpc' = "unlock"
    /\ d_alarm' = alarm_list
    /\ UNCHANGED <<now, alarm_mutex, alarm_done, mem, mpc, m_alarm, nlines,
                   sleep_time, err, insertedSeq, together>>

\* DUnlock without the pthread_mutex_unlock of line 121.
DUnlock_keep ==
    /\ dpc = "unlock"
    /\ dpc' = "lock"
    /\ UNCHANGED <<d_alarm, now, alarm_mutex, alarm_list, alarm_done, mem, mpc, m_alarm,
                   nlines, sleep_time, threads, out, err, insertedSeq, poppedSeq,
                   together>>

\* line 121: pthread_mutex_unlock; next iteration.
DUnlock ==
    /\ dpc = "unlock"
    /\ alarm_mutex' = "free"
    /\ dpc' = "lock"
    /\ UNCHANGED <<d_alarm, now, alarm_list, alarm_done, mem, mpc, m_alarm, nlines,
                   sleep_time, threads, out, err, insertedSeq, poppedSeq, together>>

\* ---------------------------------------------------------------- individual_alarm_thread
\* lines 48-54: the time has come: "Alarm Expired", free, pthread_exit.
WExpire(k) ==
    /\ threads[k].pc = "run"
    /\ mem[threads[k].alarm].time <= now
    /\ out' = [out EXCEPT ![threads[k].alarm] = Append(@, "expired")]
    /\ mem' = [mem EXCEPT ![threads[k].alarm].frees = @ + 1]
    /\ threads' = [threads EXCEPT ![k].pc = "exited"]
    /\ UNCHANGED <<d_alarm, now, alarm_mutex, alarm_list, alarm_done, mpc, m_alarm, nlines,
                   dpc, sleep_time, err, insertedSeq, poppedSeq, together>>

\* WTick with the test of line 50 lost: tick and sleep whatever the time.
WTick_nocheck(k) ==
    /\ threads[k].pc = "run"
    /\ out' = [out EXCEPT ![threads[k].alarm] = Append(@, "tick")]
    /\ threads' = [threads EXCEPT ![k].pc = "sleep", ![k].wake = now + 1]
    /\ UNCHANGED <<d_alarm, now, alarm_mutex, alarm_list, alarm_done, mem, mpc,
                   m_alarm, nlines, dpc, sleep_time, err, insertedSeq, poppedSeq,
                   together>>

\* lines 48-61: not yet: "Alarm:" (the tick), then sleep(1) begins.
WTick(k) ==
    /\ threads[k].pc = "run"
    /\ mem[threads[k].alarm].time > now
    /\ out' = [out EXCEPT ![threads[k].alarm] = Append(@, "tick")]
    /\ threads' = [threads EXCEPT ![k].pc = "sleep", ![k].wake = now + 1]
    /\ UNCHANGED <<d_alarm, now, alarm_mutex, alarm_list, alarm_done, mem, mpc, m_alarm,
                   nlines, dpc, sleep_time, err, insertedSeq, poppedSeq, together>>

\* line 61: sleep(1) returns once a second has passed.
WWake(k) ==
    /\ threads[k].pc = "sleep"
    /\ now >= threads[k].wake
    /\ threads' = [threads EXCEPT ![k].pc = "run", ![k].wake = 0]
    /\ UNCHANGED <<d_alarm, now, alarm_mutex, alarm_list, alarm_done, mem, mpc, m_alarm,
                   nlines, dpc, sleep_time, out, err, insertedSeq, poppedSeq,
                   together>>

\* ---------------------------------------------------------------- the clock
\* A record that is still to expire: stamped, not freed, time ahead of now.
Pending(p) == mem[p].stamped /\ mem[p].frees = 0 /\ mem[p].time > now

\* time(NULL) moves on by a second.
ClockAdvance ==
    /\ \/ now < MaxTime
       \/ \E p \in 1..Len(mem) : Pending(p)
    /\ now' = now + 1
    /\ UNCHANGED <<d_alarm, alarm_mutex, alarm_list, alarm_done, mem, mpc, m_alarm, nlines,
                   dpc, sleep_time, threads, out, err, insertedSeq, poppedSeq,
                   together>>

Next ==
    \/ MEof \/ MBlank \/ MBad \/ MGood \/ MLock \/ MStamp \/ MInsert \/ MUnlock
    \/ DLock \/ DIdle \/ DExit \/ DDispatch \/ DUnlock
    \/ \E k \in 1..Len(threads) : WExpire(k) \/ WTick(k) \/ WWake(k)
    \/ ClockAdvance

Spec == Init /\ [][Next]_vars

\* ---------------------------------------------------------------- fairness
\* Every thread that can take a step eventually takes one; main is not
\* obliged to be given input; the clock keeps moving while it may.
MainStep == MLock \/ MStamp \/ MInsert \/ MUnlock
DispStep == DLock \/ DIdle \/ DExit \/ DDispatch \/ DUnlock
WorkStep(k) == k <= Len(threads) /\ (WExpire(k) \/ WTick(k) \/ WWake(k))

Fairness ==
    /\ WF_vars(MainStep)
    /\ WF_vars(DispStep)
    /\ \A k \in 1..MaxLines : WF_vars(WorkStep(k))
    /\ WF_vars(ClockAdvance)

FairSpec == Init /\ [][Next]_vars /\ Fairness

\* ---------------------------------------------------------------- vocabulary
Time(p) == mem[p].time

\* Position of x in s (0 when absent).
Pos(s, x) == IF \E i \in 1..Len(s) : s[i] = x
             THEN CHOOSE i \in 1..Len(s) : s[i] = x
             ELSE 0

Count(s, x) == Cardinality({ i \in 1..Len(s) : s[i] = x })

NoDup(s) == \A i, j \in 1..Len(s) : i # j => s[i] # s[j]

Sorted(s) == \A i, j \in 1..Len(s) : i < j => Time(s[i]) <= Time(s[j])

\* a and b were in the list at the same time.
CoResident(a, b) == <<a, b>> \in together \/ <<b, a>> \in together

ThreadsOf(p) == { k \in 1..Len(threads) : threads[k].alarm = p }

Expired(p) ==
    /\ p <= Len(out)
    /\ Count(out[p], "expired") = 1
    /\ \E k \in ThreadsOf(p) : threads[k].pc = "exited"

\* ---------------------------------------------------------------- claims

\* C1: whenever the mutex is free or has just been acquired (main at line
\* 177, alarm_thread at line 91), the list is non-decreasing in time from
\* head to tail.
C1_SortInvariant ==
    (alarm_mutex = "free" \/ mpc = "stamp" \/ dpc = "locked") => Sorted(Registry)

\* C1 witness: the mutex is free, a pop has happened, and the list holds two
\* records of different times with the later-inserted one in front.
C1_Witness ==
    /\ alarm_mutex = "free"
    /\ Len(poppedSeq) >= 1
    /\ Len(Registry) >= 2
    /\ Registry[1] > Registry[2]
    /\ Time(Registry[1]) < Time(Registry[2])

\* C2: the records ever linked in are exactly the records ever unlinked plus
\* the records now in the list, each once.
C2_Conservation ==
    /\ Len(insertedSeq) = Len(poppedSeq) + Len(Registry)
    /\ Range(insertedSeq) = Range(poppedSeq) \cup Range(Registry)
    /\ NoDup(poppedSeq \o Registry)

\* C2 witness: something was popped while two records are still listed.
C2_Witness == Len(poppedSeq) >= 1 /\ Len(Registry) >= 2

\* C3: a popped record is popped once, is no longer reachable from the list,
\* is the argument of exactly one individual_alarm_thread, and is freed at
\* most once, by that thread, as its last act.
C3_SingleOwnership ==
    /\ NoDup(poppedSeq)
    /\ \A i \in 1..Len(poppedSeq) :
          LET p == poppedSeq[i] IN
          /\ p \notin Range(Registry)
          /\ Cardinality(ThreadsOf(p)) = 1
          /\ mem[p].frees <= 1
          /\ mem[p].frees = 1 <=> \E k \in ThreadsOf(p) : threads[k].pc = "exited"

\* C3 witness: one popped record already freed by its thread, a second one
\* popped after it and still owned by a live thread.
C3_Witness ==
    /\ Len(poppedSeq) >= 2
    /\ mem[poppedSeq[1]].frees = 1
    /\ threads[2].pc = "sleep"

\* C4: once alarm_done is set, alarm_thread unlinks whatever is still listed
\* and ends.
C4_DispatcherTerminates ==
    (alarm_done = 1) ~>
        (dpc = "exited" /\ alarm_list = NULL /\ Len(poppedSeq) = Len(insertedSeq))

\* C4 witness: main and alarm_thread have both ended and two records were
\* popped on the way.
C4_Witness ==
    /\ dpc = "exited"
    /\ mpc = "exited"
    /\ Len(poppedSeq) >= 2

\* C5 (as claimed): of two listed records with equal time, the one linked in
\* first is nearer the head.
C5_TieInsertionOrder ==
    \A i, j \in 1..Len(Registry) :
        (i < j /\ Time(Registry[i]) = Time(Registry[j]))
            => Pos(insertedSeq, Registry[i]) < Pos(insertedSeq, Registry[j])

\* C5 (amended): of two listed records with equal time, the one linked in
\* LAST is nearer the head, and of two equal-time records that were listed
\* together, alarm_thread pops the later-inserted one first.
C5_TieReverseOrder ==
    /\ \A i, j \in 1..Len(Registry) :
          (i < j /\ Time(Registry[i]) = Time(Registry[j]))
              => Pos(insertedSeq, Registry[i]) > Pos(insertedSeq, Registry[j])
    /\ \A i, j \in 1..Len(poppedSeq) :
          (/\ i < j
           /\ Time(poppedSeq[i]) = Time(poppedSeq[j])
           /\ CoResident(poppedSeq[i], poppedSeq[j]))
              => Pos(insertedSeq, poppedSeq[i]) > Pos(insertedSeq, poppedSeq[j])

\* C5 witness: two equal-time records that were listed together have both
\* been popped.
C5_Witness ==
    \E i, j \in 1..Len(poppedSeq) :
        /\ i < j
        /\ Time(poppedSeq[i]) = Time(poppedSeq[j])
        /\ CoResident(poppedSeq[i], poppedSeq[j])

\* C6 (as claimed): whenever A is popped before B, A's time is at most B's.
C6_GlobalDispatchOrder == Sorted(poppedSeq)

\* C6 (amended): whenever A is popped before B and the two were in the list
\* at the same time, A's time is at most B's.
C6_CoResidentDispatchOrder ==
    \A i, j \in 1..Len(poppedSeq) :
        (i < j /\ CoResident(poppedSeq[i], poppedSeq[j]))
            => Time(poppedSeq[i]) <= Time(poppedSeq[j])

\* C6 witness: a later-expiring record was linked in, an earlier-expiring one
\* after it while the first was still listed, and the second was popped first.
C6_Witness ==
    \E i, j \in 1..Len(poppedSeq) :
        /\ i < j
        /\ CoResident(poppedSeq[i], poppedSeq[j])
        /\ Pos(insertedSeq, poppedSeq[i]) > Pos(insertedSeq, poppedSeq[j])
        /\ Time(poppedSeq[i]) < Time(poppedSeq[j])

\* C7 (as claimed): the list head, the links and alarm_done change only in a
\* step of a thread that holds alarm_mutex, and the holder is the thread that
\* is inside its critical section.
C7_LockDiscipline ==
    [][ /\ (alarm_done' # alarm_done) => (alarm_mutex = "main")
        /\ (alarm_list' # alarm_list) => (alarm_mutex # "free")
        /\ (dpc = "locked") => (alarm_mutex = "alarm_thread")
        /\ (mpc \in {"stamp", "insert", "unlock"}) => (alarm_mutex = "main") ]_vars

\* C8: every record linked into the list is in the end reported expired
\* exactly once by a thread that then ends; no record is ever reported
\* expired twice.
C8_EveryAlarmExpires ==
    /\ \A p \in 1..MaxLines : (p \in Range(Registry)) ~> Expired(p)
    /\ [](\A p \in 1..Len(out) : Count(out[p], "expired") <= 1)

\* C8 witness: end-of-input has been seen, one record has expired and its
\* thread has ended while another record's thread is still counting down.
C8_Witness ==
    /\ alarm_done = 1
    /\ \E p \in 1..Len(mem) : Expired(p)
    /\ \E k \in 1..Len(threads) : threads[k].pc = "sleep"

\* C9: the step that reports "Bad command" leaves the list, the flag, the
\* mutex, every thread and every existing report as they were, links nothing
\* in, reports nothing on stdout, is taken without the mutex, and leaves main
\* at the prompt.
C9_MalformedChangesNothing ==
    [][ (err' # err) =>
          /\ UNCHANGED <<d_alarm, alarm_list, alarm_done, alarm_mutex, threads, dpc,
                         insertedSeq, poppedSeq>>
          /\ Registry' = Registry
          /\ \A p \in 1..Len(mem) : mem'[p] = mem[p] /\ out'[p] = out[p]
          /\ \A p \in (Len(out) + 1)..Len(out') : out'[p] = <<>>
          /\ \A p \in (Len(mem) + 1)..Len(mem') : mem'[p].frees = 1
          /\ alarm_mutex # "main"
          /\ mpc' = "read" ]_vars

\* C9 witness: a "Bad command" has been reported while a record is listed
\* and a thread is counting down.
C9_Witness ==
    /\ err >= 1
    /\ mpc = "read"
    /\ mem[Len(mem)].stamped = FALSE
    /\ Len(Registry) >= 1
    /\ \E k \in 1..Len(threads) : threads[k].pc = "sleep"

\* C10: the threads ever started are as many as the records ever popped, at
\* most as many as the records admitted; with no line read at all no thread
\* is ever started.
C10_OneWorkerPerAlarm ==
    /\ Len(threads) = Len(poppedSeq)
    /\ \A k \in 1..Len(threads) : threads[k].alarm = poppedSeq[k]
    /\ Len(poppedSeq) <= Len(insertedSeq)
    /\ (nlines = 0) => (threads = <<>>)

\* C10 witness: no request, immediate end-of-input, alarm_thread ended, no
\* thread started.
C10_Witness ==
    /\ nlines = 0
    /\ mpc = "exited"
    /\ dpc = "exited"
    /\ threads = <<>>

\* C11: alarm_done starts at 0; it changes only in main's end-of-input step
\* (lines 149-153), only from 0 to 1; once 1 it stays 1, and no record is
\* linked into the list from then on.
C11_FlagOneShot ==
    /\ alarm_done = 0
    /\ [][ /\ (alarm_done' # alarm_done) =>
                (alarm_done = 0 /\ alarm_done' = 1 /\ mpc = "read" /\ mpc' = "exited")
           /\ (alarm_done = 1) =>
                /\ alarm_done' = 1
                /\ insertedSeq' = insertedSeq
                /\ \/ Registry' = Registry
                   \/ Registry # <<>> /\ Registry' = Tail(Registry) ]_vars

\* C11 witness: the flag is set while a record is still listed and another
\* is already with its thread.
C11_Witness ==
    /\ alarm_done = 1
    /\ Len(Registry) >= 1
    /\ Len(poppedSeq) >= 1

C13_CreateOutsideLock ==
    [][ (Len(threads') > Len(threads)) => (alarm_mutex # "alarm_thread") ]_vars

\* C13 (amended): the step that reports "retrieved" and starts the thread is
\* taken with alarm_thread owning the mutex, which it still owns afterwards
\* (it releases it in its next step), so main cannot be inside its insert
\* while a thread is being started.
C13_CreateUnderLock ==
    [][ (Len(threads') > Len(threads)) =>
          /\ alarm_mutex = "alarm_thread"
          /\ alarm_mutex' = "alarm_thread"
          /\ dpc' = "unlock"
          /\ mpc \notin {"stamp", "insert", "unlock"}
          /\ Count(out'[threads'[Len(threads')].alarm], "retrieved") = 1 ]_vars

\* C13 witness: a thread has just been started, the mutex is still owned by
\* alarm_thread, and main is waiting at line 174 with the next record.
C13_Witness ==
    /\ dpc = "unlock"
    /\ d_alarm # NULL
    /\ alarm_mutex = "alarm_thread"
    /\ mpc = "lock"
    /\ Len(threads) >= 1

\* C14 (as claimed): after an iteration that found the list empty and the
\* flag clear, alarm_thread's next step after the unlock is a suspension, not
\* the lock of line 83.
C14_IdleBackOff ==
    [][ (dpc = "unlock" /\ d_alarm = NULL /\ dpc' # dpc) => (dpc' = "sleep") ]_vars

\* C15: when alarm_thread has ended, alarm_done is set and the list is empty
\* (in every later state too), and nothing is linked in any more.
C15_StoppedMeansDrained ==
    /\ [](dpc = "exited" => (alarm_done = 1 /\ alarm_list = NULL /\ Registry = <<>>))
    /\ [][ (dpc = "exited") => (insertedSeq' = insertedSeq /\ alarm_list' = NULL) ]_vars

\* C15 witness: alarm_thread has ended after popping records, one of whose
\* threads is still counting down.
C15_Witness ==
    /\ dpc = "exited"
    /\ Len(poppedSeq) >= 2
    /\ \E k \in 1..Len(threads) : threads[k].pc = "sleep"

\* The thread k's record, before and after a step.
AlarmOf(k) == threads[k].alarm

\* C16: a thread reports "expired" only in a step taken at time >= now, and
\* "tick" only in a step taken at time < now; it goes to sleep only in a
\* step that reports a tick; a thread that finds its record's time already
\* reached can do nothing but report "expired" and end; nothing is reported
\* for a record after its "expired".
C16_CheckBeforeSleep ==
    [][ \A k \in 1..Len(threads) :
          LET p == AlarmOf(k) IN
          /\ (out'[p] = Append(out[p], "expired")) => (Time(p) <= now)
          /\ (out'[p] = Append(out[p], "tick")) =>
                (Time(p) > now /\ threads'[k].pc = "sleep")
          /\ (threads[k].pc # "sleep" /\ threads'[k].pc = "sleep") =>
                (out'[p] = Append(out[p], "tick"))
          /\ (threads[k].pc = "run" /\ Time(p) <= now /\ threads'[k] # threads[k]) =>
                (threads'[k].pc = "exited" /\ out'[p] = Append(out[p], "expired"))
          /\ (Count(out[p], "expired") > 0) => (out'[p] = out[p]) ]_vars

\* C16 witness: a record with a negative delay has gone from "retrieved"
\* straight to "expired", and its thread has ended.
C16_Witness ==
    \E k \in 1..Len(threads) :
        /\ threads[k].pc = "exited"
        /\ mem[AlarmOf(k)].seconds < 0
        /\ out[AlarmOf(k)] = <<"received", "retrieved", "expired">>

\* The reports of one record in the order received, retrieved, ticks,
\* expired, each of the three at most once.
ReportOrder(s) ==
    /\ Len(s) >= 1 /\ s[1] = "received"
    /\ Len(s) >= 2 => s[2] = "retrieved"
    /\ \A i \in 3..Len(s) : s[i] \in {"tick", "expired"}
    /\ \A i \in 1..Len(s) : s[i] = "expired" => i = Len(s)

\* C17: a record that has been stamped has its reports in the order
\* received, retrieved, ticks, expired; one that has not has none; a record
\* has a "retrieved" report exactly when it was popped.
C17_ReportOrder ==
    \A p \in 1..Len(mem) :
        /\ mem[p].stamped => ReportOrder(out[p])
        /\ ~mem[p].stamped => out[p] = <<>>
        /\ (Count(out[p], "retrieved") = 1) <=> (p \in Range(poppedSeq))

\* C17 witness: a record has gone through all four kinds of report.
C17_Witness ==
    \E p \in 1..Len(mem) :
        out[p] = <<"received", "retrieved", "tick", "expired">>

\* C18: main waiting at fgets does not own the mutex, and while any
\* individual_alarm_thread sleeps the mutex is free or owned by main or
\* alarm_thread inside its locked region, never by a sleeper.
C18_NoLockAcrossSuspension ==
    /\ (mpc = "read") => (alarm_mutex # "main")
    /\ (\E k \in 1..Len(threads) : threads[k].pc = "sleep") =>
          \/ alarm_mutex = "free"
          \/ alarm_mutex = "main" /\ mpc \in {"stamp", "insert", "unlock"}
          \/ alarm_mutex = "alarm_thread" /\ dpc \in {"locked", "unlock", "exited"}

\* C18 witness: main waits for input after an insert and a thread sleeps.
C18_Witness ==
    /\ mpc = "read"
    /\ Len(insertedSeq) >= 2
    /\ alarm_mutex = "free"
    /\ \E k \in 1..Len(threads) : threads[k].pc = "sleep"

\* C19: of two records that were listed together, the one with the strictly
\* smaller time is popped first; every pop takes the head, whose time is the
\* least in the list, and leaves the rest of the list as it was.
C19_CoResidentPopOrder ==
    /\ [](\A a, b \in 1..Len(mem) :
            (/\ CoResident(a, b)
             /\ Time(a) < Time(b)
             /\ b \in Range(poppedSeq))
               => (Pos(poppedSeq, a) # 0 /\ Pos(poppedSeq, a) < Pos(poppedSeq, b)))
    /\ [][ (poppedSeq' # poppedSeq) =>
             /\ poppedSeq' = Append(poppedSeq, Head(Registry))
             /\ Registry' = Tail(Registry)
             /\ \A q \in Range(Registry) : Time(Head(Registry)) <= Time(q) ]_vars

\* C19 witness: of two records listed together with different times both
\* have been popped, and a third record was in the list behind them.
C19_Witness ==
    \E a, b \in Range(poppedSeq) :
        /\ CoResident(a, b)
        /\ Time(a) < Time(b)
        /\ Len(insertedSeq) >= 3

\* A thread waiting at pthread_mutex_lock gets the mutex if it is free again
\* and again (a fair mutex), on top of the fairness of the threads.
LockFairSpec == Init /\ [][Next]_vars /\ Fairness /\ SF_vars(MLock) /\ SF_vars(DLock)

====
